---- MODULE Spec2Model ----
(***************************************************************************)
(* Basket checkout, checkout-event transport and order ingestion of the    *)
(* serverless e-commerce backend (basket service, EventBridge/SQS,         *)
(* ordering service).                                                      *)
(*                                                                         *)
(* Every store call and every publish call is a suspension point of the    *)
(* invocation that issues it, so a checkout invocation is modelled as one  *)
(* step per call: receive+validate, GetItem+prepareOrderPayload,           *)
(* PutEvents, DeleteItem.  The hosting platform may end an invocation at   *)
(* any suspension point (Timeout).                                         *)
(***************************************************************************)
EXTENDS Integers, Sequences, FiniteSets, TLC

\* ---------------------------------------------------------------- bounds
MaxItems == 2
MaxCheckouts == 2
MaxClock == 2
MaxBatch == 2
MaxDeliveries == 2
MaxCreates == 1      \* ids generated by uuidv4
MaxRequests == 3     \* HTTP requests answered by the CRUD handlers

\* ------------------------------------------------------------ value sets
Users == {"alice", "bob"}
Procs == {1, 2}
Null == "null"
ReqUserNames == Users \cup {Null, ""}
FirstNames == {"A"}

Item(id, q, pr) == [productId |-> id, quantity |-> q, price |-> pr]
\* The i-th line a client may put in a basket: prices 10, 20, ... and a
\* quantity other than 1 on the first line.
Line(i) == Item(i, IF i = 1 THEN 2 ELSE 1, 10 * i)

RECURSIVE SeqsUpTo(_, _)
SeqsUpTo(S, n) ==
  IF n = 0 THEN {<<>>}
  ELSE LET shorter == SeqsUpTo(S, n - 1)
       IN  shorter \cup {Append(s, x) : s \in shorter, x \in S}

\* Item lists of the requests: lines 1..k in catalogue order or reversed.
ItemLists ==
  {[i \in 1..k |-> Line(i)] : k \in 0..MaxItems}
    \cup {[i \in 1..k |-> Line(k + 1 - i)] : k \in 0..MaxItems}

\* A basket record of the basket table; items may be null (itemsNull).
BasketRec(u, isNull, its) ==
  [exists |-> TRUE, userName |-> u, itemsNull |-> isNull, items |-> its]
\* What GetItem + "Item ? unmarshall(Item) : {}" yields for a missing key.
EmptyObject == [exists |-> FALSE, userName |-> Null, itemsNull |-> TRUE, items |-> <<>>]

\* Request bodies of POST /basket.  alice's clients send every item list
\* and the null one; bob is the bystander with one basket body.
BasketBodies(u) ==
  IF u = "alice"
    THEN {BasketRec(u, FALSE, its) : its \in ItemLists} \cup {BasketRec(u, TRUE, <<>>)}
    ELSE {BasketRec(u, FALSE, <<Line(1)>>)}

NoRequest == [userName |-> Null, firstName |-> Null]
Requests == [userName : ReqUserNames, firstName : FirstNames]
NoPayload == [userName |-> Null, firstName |-> Null, totalPrice |-> 0, items |-> <<>>]

\* Product ids: "p1" is the id a client makes up, for a path or for the id
\* field of a body; uuidv4() yields GeneratedIds[1], [2], ... which differ
\* from every id a client makes up.
ClientIds == {"p1"}
GeneratedIds == <<"g1", "g2", "g3">>
ProductIds == ClientIds \cup {GeneratedIds[i] : i \in DOMAIN GeneratedIds}

\* JavaScript values of a parsed body: strings and numbers.
JsString(s) == [str |-> s]
JsNumber(n) == [num |-> n]
typeof(v) == IF "num" \in DOMAIN v THEN "number" ELSE "string"
Numbers == {7, 42}
Categories == {"ab", "b"}
\* The characters of the strings used as categories and search terms.
Chars(s) ==
  CASE s = "a" -> <<"a">>
    [] s = "b" -> <<"b">>
    [] s = "ab" -> <<"a", "b">>
    [] s = "ba" -> <<"b", "a">>
SearchTerms == {"a", "b", "ba"}

\* Field maps a client sends: any subset of the fields id, price, category.
Fields == {"id", "price", "category"}
FieldValues(f) ==
  CASE f = "id" -> {JsString(i) : i \in ClientIds}
    [] f = "price" -> {JsNumber(n) : n \in Numbers}
    [] f = "category" -> {JsString(c) : c \in Categories}
JsValues == UNION {FieldValues(f) : f \in Fields}
FieldMaps ==
  UNION {{m \in [D -> JsValues] : \A f \in D : m[f] \in FieldValues(f)} : D \in SUBSET Fields}

\* GetItem's Item for a missing key, and the handler's ghost before any request.
NoItem == <<>>
NoEvent == [service |-> "none", httpMethod |-> "none", pathParameters |-> [null |-> TRUE],
            queryStringParameters |-> [null |-> TRUE], body |-> <<"null", <<>>>>]
NoResponse == [statusCode |-> 0, body |-> [type |-> "none", object |-> <<>>, array |-> <<>>]]

VARIABLES
  basketTable,   \* basket table: userName -> basket record or EmptyObject
  pc,            \* checkout invocation: position
  req,           \* checkout invocation: parsed checkoutRequest
  basket,        \* checkout invocation: basket returned by getBasket
  payload,       \* checkout invocation: checkoutPayload
  result,        \* checkout invocation: outcome reported to the caller
  calls,         \* checkout invocation: store/bus calls issued so far
  started,       \* number of checkout invocations started
  events,        \* checkout events accepted by the event bus, in order
  queue,         \* ids of the messages held by the order queue
  deliveries,    \* per message: number of deliveries so far
  opc,           \* ordering invocation: position
  batch,         \* ordering invocation: event.Records (message ids)
  idx,           \* ordering invocation: index of the next record
  logged,        \* ordering invocation: records whose error was logged
  report,        \* what the last ordering invocation returned to the queue
  orderTable,    \* order table: set of items, key (userName, orderDate)
  ingested,      \* per message: number of successful createOrder calls
  lastIngest,    \* entry mode, message and time of the last delivery the store served
  now,           \* wall clock in milliseconds
  productTable,  \* product table: id -> marshalled item or NoItem
  uuids,         \* number of ids uuidv4 has generated
  served,        \* number of HTTP requests the CRUD handlers have answered
  lastEvent,     \* the event of the last HTTP request answered
  response,      \* what the handler returned for it
  repeats,       \* how many times in a row lastEvent has been answered (up to 2)
  issued,        \* the store command the last request issued, "none" if none
  thrown         \* the error the routed operation threw, "none" if it completed

ckVars == <<pc, req, basket, payload, result, calls, started>>
busVars == <<events, queue, deliveries>>
ordVars == <<opc, batch, idx, logged, report, orderTable, ingested, lastIngest>>
prodVars == <<productTable, uuids, served, lastEvent, response, repeats, issued, thrown>>
vars == <<basketTable, ckVars, busVars, ordVars, now, prodVars>>

NoIngest == [mode |-> "none", msg |-> 0, orderDate |-> <<>>]
NoCalls == [get |-> 0, getOk |-> 0, publish |-> 0, publishOk |-> 0, del |-> 0, delOk |-> 0]

Init ==
  /\ basketTable = [u \in Users |-> EmptyObject]
  /\ pc = [p \in Procs |-> "idle"]
  /\ req = [p \in Procs |-> NoRequest]
  /\ basket = [p \in Procs |-> EmptyObject]
  /\ payload = [p \in Procs |-> NoPayload]
  /\ result = [p \in Procs |-> "none"]
  /\ calls = [p \in Procs |-> NoCalls]
  /\ started = 0
  /\ events = <<>>
  /\ queue = {}
  /\ deliveries = <<>>
  /\ opc = "idle"
  /\ batch = <<>>
  /\ idx = 1
  /\ logged = {}
  /\ report = {}
  /\ orderTable = {}
  /\ ingested = <<>>
  /\ lastIngest = NoIngest
  /\ now = 0
  /\ productTable = [i \in ProductIds |-> NoItem]
  /\ uuids = 0
  /\ served = 0
  /\ lastEvent = NoEvent
  /\ response = NoResponse
  /\ repeats = 0
  /\ issued = "none"
  /\ thrown = "none"

\* ------------------------------------------------------- basket service
\* getBasket(userName): GetItem by userName; a missing key gives {}.
getBasket(u) == IF u \in Users THEN basketTable[u] ELSE EmptyObject

\* createBasket: PutItem, overwrites the existing basket of that userName.
createBasketAppending(b) ==
  /\ basketTable' = [basketTable EXCEPT ![b.userName] =
                       [b EXCEPT !.items = basketTable[b.userName].items \o b.items]]
  /\ UNCHANGED <<ckVars, busVars, ordVars, now>>
createBasket(b) ==
  /\ basketTable' = [basketTable EXCEPT ![b.userName] = b]
  /\ UNCHANGED <<ckVars, busVars, ordVars, now>>

\* deleteBasket(userName): DeleteItem by userName.
deleteBasket(u) ==
  /\ basketTable' = [basketTable EXCEPT ![u] = EmptyObject]
  /\ UNCHANGED <<ckVars, busVars, ordVars, now>>

\* ---------------------------------------------------- checkout (basket)
\* checkoutBasket step 1, "Validation: ensures userName exists in request".
ValidRequestNullOnly(r) == r.userName # Null
ValidRequest(r) == r.userName # Null /\ r.userName # ""

\* prepareOrderPayload's guard: the basket exists and contains items.
HasItemsNullCheckOnly(b) == b.exists /\ ~b.itemsNull
HasItems(b) == b.exists /\ ~b.itemsNull /\ b.items # <<>>

\* "Calculates total price by summing item prices": one price per line.
RECURSIVE TotalPriceTimesQuantity(_)
TotalPriceTimesQuantity(its) ==
  IF its = <<>> THEN 0
  ELSE Head(its).price * Head(its).quantity + TotalPriceTimesQuantity(Tail(its))
RECURSIVE TotalPrice(_)
TotalPrice(its) ==
  IF its = <<>> THEN 0 ELSE Head(its).price + TotalPrice(Tail(its))

\* prepareOrderPayload(checkoutRequest, basket): the request fields, the
\* total, and on top of them the basket's fields (userName, items).
prepareOrderPayloadTotalOnly(r, b) ==
  [userName |-> b.userName, firstName |-> r.firstName,
   totalPrice |-> TotalPrice(b.items), items |-> <<>>]
prepareOrderPayload(r, b) ==
  [userName |-> b.userName, firstName |-> r.firstName,
   totalPrice |-> TotalPrice(b.items), items |-> b.items]

\* Where checkout goes after the PutEvents call returned.
AfterPublishAlwaysOn(ok) == "published"
AfterPublish(ok) == IF ok THEN "published" ELSE "done"

\* What checkout reports after the DeleteItem call returned.
AfterDeleteHardFailure(ok) == IF ok THEN "ok" ELSE "dependency-error"
AfterDelete(ok) == IF ok THEN "ok" ELSE "ok-warning"

\* The basket table after checkout's DeleteItem call.
ClearedTableKeepsBasket(u, ok) == basketTable
ClearedTable(u, ok) ==
  IF ok THEN [basketTable EXCEPT ![u] = EmptyObject] ELSE basketTable

\* RECEIVED -> VALIDATED: a new invocation parses and validates the request;
\* the platform gives it the first worker that is not running one.
CheckoutReceive(p, r) ==
  /\ pc[p] \in {"idle", "done"}
  /\ \A q \in Procs : q < p => pc[q] \notin {"idle", "done"}
  /\ started < MaxCheckouts
  /\ started' = started + 1
  /\ req' = [req EXCEPT ![p] = r]
  /\ basket' = [basket EXCEPT ![p] = EmptyObject]
  /\ payload' = [payload EXCEPT ![p] = NoPayload]
  /\ calls' = [calls EXCEPT ![p] = NoCalls]
  /\ IF ValidRequest(r)
       THEN /\ pc' = [pc EXCEPT ![p] = "validated"]
            /\ result' = [result EXCEPT ![p] = "none"]
       ELSE /\ pc' = [pc EXCEPT ![p] = "done"]
            /\ result' = [result EXCEPT ![p] = "validation-error"]
  /\ UNCHANGED <<basketTable, busVars, ordVars, now, prodVars>>

\* VALIDATED -> BASKET_LOADED -> PAYLOAD_BUILT: getBasket, then
\* prepareOrderPayload on what it returned.
CheckoutLoad(p, ok) ==
  /\ pc[p] = "validated"
  /\ calls' = [calls EXCEPT ![p].get = @ + 1,
                            ![p].getOk = IF ok THEN 1 ELSE @]
  /\ IF ~ok
       THEN /\ pc' = [pc EXCEPT ![p] = "done"]
            /\ result' = [result EXCEPT ![p] = "dependency-error"]
            /\ UNCHANGED <<basket, payload>>
       ELSE LET b == getBasket(req[p].userName) IN
            /\ basket' = [basket EXCEPT ![p] = b]
            /\ IF HasItems(b)
                 THEN /\ payload' = [payload EXCEPT ![p] = prepareOrderPayload(req[p], b)]
                      /\ pc' = [pc EXCEPT ![p] = "built"]
                      /\ UNCHANGED result
                 ELSE /\ pc' = [pc EXCEPT ![p] = "done"]
                      /\ result' = [result EXCEPT ![p] = "business-error"]
                      /\ UNCHANGED payload
  /\ UNCHANGED <<basketTable, req, started, busVars, ordVars, now, prodVars>>

\* PAYLOAD_BUILT -> EVENT_PUBLISHED: publishCheckoutBasketEvent (PutEvents);
\* the bus rule routes an accepted event to the order queue.
CheckoutPublish(p, ok) ==
  /\ pc[p] = "built"
  /\ calls' = [calls EXCEPT ![p].publish = @ + 1,
                            ![p].publishOk = IF ok THEN 1 ELSE @]
  /\ pc' = [pc EXCEPT ![p] = AfterPublish(ok)]
  /\ result' = [result EXCEPT ![p] = IF ok THEN @ ELSE "dependency-error"]
  /\ IF ok
       THEN /\ events' = Append(events, payload[p])
            /\ queue' = queue \cup {Len(events) + 1}
            /\ deliveries' = Append(deliveries, 0)
            /\ ingested' = Append(ingested, 0)
       ELSE UNCHANGED <<events, queue, deliveries, ingested>>
  /\ UNCHANGED <<basketTable, req, basket, payload, started,
                 opc, batch, idx, logged, report, orderTable, lastIngest, now, prodVars>>

\* EVENT_PUBLISHED -> BASKET_CLEARED: deleteBasket(userName), then respond.
CheckoutClear(p, ok) ==
  /\ pc[p] = "published"
  /\ calls' = [calls EXCEPT ![p].del = @ + 1,
                            ![p].delOk = IF ok THEN 1 ELSE @]
  /\ basketTable' = ClearedTable(req[p].userName, ok)
  /\ pc' = [pc EXCEPT ![p] = "done"]
  /\ result' = [result EXCEPT ![p] = AfterDelete(ok)]
  /\ UNCHANGED <<req, basket, payload, started, busVars, ordVars, now, prodVars>>

\* The platform ends the invocation at a suspension point (deadline).
Timeout(p) ==
  /\ pc[p] \in {"validated", "built", "published"}
  /\ pc' = [pc EXCEPT ![p] = "done"]
  /\ result' = [result EXCEPT ![p] = "timeout"]
  /\ UNCHANGED <<basketTable, req, basket, payload, calls, started,
                 busVars, ordVars, now, prodVars>>

\* ------------------------------------------------------- client requests
\* POST /basket with a full basket body.
PutBasket(u, b) == createBasket(b) /\ UNCHANGED prodVars

\* DELETE /basket/{userName}.
RemoveBasket(u) ==
  /\ basketTable[u].exists
  /\ deleteBasket(u)
  /\ UNCHANGED prodVars

\* ------------------------------------------------------ ordering service
\* new Date().toISOString(): the millisecond clock as fixed-width decimal
\* digits, so that textual order is time order.
ToISOStringSeconds(t) == <<0, 0, 0>>
ToISOString(t) == <<(t \div 100) % 10, (t \div 10) % 10, t % 10>>

\* PutItem on the order table: the item replaces the one with the same
\* (userName, orderDate) key, if any.
PutItemAppendOnly(table, o) == table \cup {o}
PutItem(table, o) ==
  {x \in table : ~(x.userName = o.userName /\ x.orderDate = o.orderDate)}
    \cup {o}

\* createOrder(basketCheckoutEvent): the event plus orderDate.
OrderOf(e, t) ==
  [userName |-> e.userName, orderDate |-> ToISOString(t),
   totalPrice |-> e.totalPrice, firstName |-> e.firstName, items |-> e.items]

\* getOrder without orderDate: Query by partition key.
getByUser(u) == {o \in orderTable : o.userName = u}

\* What sqsInvocation returns to the queue: void, i.e. no failed records.
SqsReturnValueFailed(failed) == failed
SqsReturnValue(failed) == {}

BatchIds == {batch[i] : i \in DOMAIN batch}

Batches ==
  {b \in SeqsUpTo(queue, MaxBatch) :
     /\ b # <<>>
     /\ \A i, j \in DOMAIN b : i # j => b[i] # b[j]}

\* The envelope EventBridge puts around a published payload.
Envelope(e) ==
  [detailType |-> "CheckoutBasket", source |-> "com.swn.basket.checkoutbasket",
   detail |-> e]

\* JSON text of a value and its parse; the queue hands the envelope over as
\* the text in record.body.
JSONstringify(v) == <<"json", v>>
JSONparse(t) == t[2]
SqsRecord(m) == [body |-> JSONstringify(Envelope(events[m]))]

\* The Lambda events of the two entry modes and of an API request.
SqsEvent(b) ==
  [hasRecords |-> TRUE, Records |-> [i \in DOMAIN b |-> SqsRecord(b[i])],
   detailType |-> "undefined", detail |-> NoPayload]
BusEvent(m) ==
  [hasRecords |-> FALSE, Records |-> <<>>,
   detailType |-> Envelope(events[m]).detailType, detail |-> Envelope(events[m]).detail]

\* exports.handler's event source detection.
InvocationKindRecordsOnly(ev) ==
  IF ev.hasRecords THEN "sqs" ELSE "apiGateway"
InvocationKind(ev) ==
  IF ev.hasRecords THEN "sqs"
  ELSE IF ev.detailType # "undefined" THEN "eventBridge"
  ELSE "apiGateway"

\* The queue hands a batch of records to the ordering handler.
SqsInvocation(b) ==
  /\ opc = "idle"
  /\ b \in Batches
  /\ InvocationKind(SqsEvent(b)) = "sqs"
  /\ \A i \in DOMAIN b : deliveries[b[i]] < MaxDeliveries
  /\ opc' = "processing"
  /\ batch' = b
  /\ idx' = 1
  /\ logged' = {}
  /\ deliveries' = [m \in DOMAIN deliveries |->
                      IF \E i \in DOMAIN b : b[i] = m
                        THEN deliveries[m] + 1 ELSE deliveries[m]]
  /\ UNCHANGED <<basketTable, ckVars, events, queue, report, orderTable,
                 ingested, lastIngest, now, prodVars>>

\* sqsInvocation's loop body for the next record: createOrder(body.detail);
\* an error is logged and the loop goes on.
ProcessRecord(ok) ==
  /\ opc = "processing"
  /\ idx <= Len(batch)
  /\ idx' = idx + 1
  /\ IF ok
       THEN /\ orderTable' =
                 PutItem(orderTable,
                         OrderOf(JSONparse(SqsRecord(batch[idx]).body).detail, now))
            /\ ingested' = [ingested EXCEPT ![batch[idx]] = @ + 1]
            /\ lastIngest' = [mode |-> "sqs", msg |-> batch[idx],
                              orderDate |-> ToISOString(now)]
            /\ UNCHANGED logged
       ELSE /\ logged' = logged \cup {batch[idx]}
            /\ UNCHANGED <<orderTable, ingested, lastIngest>>
  /\ UNCHANGED <<basketTable, ckVars, busVars, opc, batch, report, now, prodVars>>

\* The bus delivers event m to the ordering handler directly:
\* eventBridgeInvocation runs createOrder(event.detail).
EventBridgeInvocation(m, ok) ==
  /\ opc = "idle"
  /\ m \in DOMAIN events
  /\ deliveries[m] < MaxDeliveries
  /\ deliveries' = [deliveries EXCEPT ![m] = @ + 1]
  /\ IF ok
       THEN /\ lastIngest' = [mode |-> "eventBridge", msg |-> m,
                              orderDate |-> ToISOString(now)]
            /\ IF InvocationKind(BusEvent(m)) = "eventBridge"
                 THEN /\ orderTable' = PutItem(orderTable, OrderOf(BusEvent(m).detail, now))
                      /\ ingested' = [ingested EXCEPT ![m] = @ + 1]
                 ELSE UNCHANGED <<orderTable, ingested>>
       ELSE UNCHANGED <<orderTable, ingested, lastIngest>>
  /\ UNCHANGED <<basketTable, ckVars, events, queue, opc, batch, idx, logged,
                 report, now, prodVars>>

\* sqsInvocation returns; the queue removes the records not reported as
\* failed, unless their visibility timeout ran out first (acked = FALSE),
\* in which case they are delivered again.
SqsReturn(acked) ==
  /\ opc = "processing"
  /\ idx > Len(batch)
  /\ acked \/ \A m \in BatchIds : deliveries[m] < MaxDeliveries
  /\ report' = SqsReturnValue(logged)
  /\ queue' = IF acked THEN queue \ (BatchIds \ report') ELSE queue
  /\ opc' = "idle"
  /\ UNCHANGED <<basketTable, ckVars, events, deliveries, batch, idx, logged,
                 orderTable, ingested, lastIngest, now, prodVars>>

\* The wall clock advances by one millisecond.
Tick ==
  /\ now < MaxClock
  /\ now' = now + 1
  /\ UNCHANGED <<basketTable, ckVars, busVars, ordVars, prodVars>>

\* A checkout event reaches the order queue from the bus (the ordering
\* service seen on its own: its input is any well-formed checkout event).
CheckoutEvents ==
  UNION {{prepareOrderPayload([userName |-> u, firstName |-> "A"], b) :
            b \in {x \in BasketBodies(u) : HasItems(x)}} : u \in Users}

EventArrives(e) ==
  /\ Len(events) < MaxCheckouts
  /\ events' = Append(events, e)
  /\ queue' = queue \cup {Len(events) + 1}
  /\ deliveries' = Append(deliveries, 0)
  /\ ingested' = Append(ingested, 0)
  /\ UNCHANGED <<basketTable, ckVars, opc, batch, idx, logged, report,
                 orderTable, lastIngest, now, prodVars>>

\* ------------------------------------------------------- product service
\* API Gateway events.  pathParameters and queryStringParameters are null
\* or an object with the one parameter; body is a JSON text or null.
NullParams == [null |-> TRUE]
IsNull(p) == "null" \in DOMAIN p
PathParams(i) == [id |-> i]
QueryParams(c) == [category |-> c]
NoBody == <<"null", <<>>>>
HttpEvent(svc, method, path, query, body) ==
  [service |-> svc, httpMethod |-> method, pathParameters |-> path,
   queryStringParameters |-> query, body |-> body]

\* The value the handler puts under "body" of its answer: an object, an
\* array, the store's response metadata, or the error of the catch branch.
ObjectBody(o) == [type |-> "object", object |-> o, array |-> <<>>]
ArrayBody(a) == [type |-> "array", object |-> <<>>, array |-> a]
MetadataBody == [type |-> "metadata", object |-> <<>>, array |-> <<>>]
ErrorBody(msg) == [type |-> "error", object |-> <<>>, array |-> <<>>, errorMsg |-> msg]

\* marshall / unmarshall of @aws-sdk/util-dynamodb: a string becomes {S: s},
\* a number becomes {N: "<decimal digits>"}, and back.
marshallValue(v) ==
  IF typeof(v) = "number" THEN [N |-> ToString(v.num)] ELSE [S |-> v.str]
marshall(o) == [f \in DOMAIN o |-> marshallValue(o[f])]
ParseNumber(t) == CHOOSE n \in Numbers : ToString(n) = t
unmarshallValueNumbersAsStrings(a) ==
  IF "N" \in DOMAIN a THEN JsString(a.N) ELSE JsString(a.S)
unmarshallValue(a) ==
  IF "N" \in DOMAIN a THEN JsNumber(ParseNumber(a.N)) ELSE JsString(a.S)
unmarshall(item) == [f \in DOMAIN item |-> unmarshallValue(item[f])]

\* The product table (partition key id) and the commands sent to it.
Exists(item) == DOMAIN item # {}
StoredItems(table) == {table[i] : i \in {j \in ProductIds : Exists(table[j])}}
GetItemCommand(table, id) == table[id]
PutItemCommandReplacingTable(table, item) ==
  [k \in DOMAIN table |-> IF k = item.id.S THEN item ELSE NoItem]
PutItemCommand(table, item) == [table EXCEPT ![item.id.S] = item]
\* DeleteItem carries no condition: it succeeds whether or not the key is
\* stored.
DeleteAcceptedIfStored(table, id) == Exists(table[id])
DeleteAccepted(table, id) == TRUE
DeleteItemCommand(table, id) ==
  IF DeleteAccepted(table, id) THEN [table EXCEPT ![id] = NoItem] ELSE table
\* UpdateItem with "SET #key0 = :value0, ...": the store rejects an
\* expression without actions and one that names the key attribute.
UpdateValidAnyName(names) == names # {}
UpdateValid(names) == names # {} /\ "id" \notin names
UpdateItemReplacing(table, id, values) ==
  [table EXCEPT ![id] =
     [f \in DOMAIN values \cup {"id"} |-> IF f = "id" THEN [S |-> id] ELSE values[f]]]
UpdateItemUnchecked(table, id, values) ==
  LET old == table[id]
  IN  [table EXCEPT ![id] =
         [f \in DOMAIN old \cup DOMAIN values \cup {"id"} |->
            IF f \in DOMAIN values THEN values[f]
            ELSE IF f = "id" THEN [S |-> id] ELSE old[f]]]
UpdateItemCommand(table, id, values) ==
  IF UpdateValid(DOMAIN values) THEN UpdateItemUnchecked(table, id, values) ELSE table


\* contains(category, :category) on strings: :category occurs in category
\* as a run of consecutive characters.
IsSubstringPrefixOnly(t, c) == Len(t) <= Len(c) /\ SubSeq(c, 1, Len(t)) = t
IsSubstring(t, c) ==
  \E i \in 0..(Len(c) - Len(t)) : SubSeq(c, i + 1, i + Len(t)) = t
contains(item, term) ==
  /\ "category" \in DOMAIN item
  /\ "S" \in DOMAIN item.category
  /\ IsSubstring(Chars(term), Chars(item.category.S))
\* KeyConditionExpression "id = :productId".
KeyConditionAnyItem(item, productId) == TRUE
KeyCondition(item, productId) == item.id.S = productId
\* The sequences holding the members of a set once each, in any order.
Orderings(S) ==
  {q \in [1..Cardinality(S) -> S] : \A i, j \in DOMAIN q : i # j => q[i] # q[j]}
\* Query: the items meeting the key condition, then the filter expression.
QueryCommand(table, productId, term) ==
  Orderings({item \in StoredItems(table) :
               KeyCondition(item, productId) /\ contains(item, term)})
\* Scan: every item, in no particular order.
ScanCommand(table) == Orderings(StoredItems(table))

\* uuidv4(): the next id never handed out before.
uuidv4 == GeneratedIds[uuids + 1]
\* productRequest.id = productId: the generated id replaces a supplied one.
WithIdIfMissing(o, id) ==
  [f \in DOMAIN o \cup {"id"} |-> IF f \in DOMAIN o THEN o[f] ELSE JsString(id)]
WithId(o, id) ==
  [f \in DOMAIN o \cup {"id"} |-> IF f = "id" THEN JsString(id) ELSE o[f]]

\* exports.handler: the operation an event is routed to.
RouteGetDeletes(ev) ==
  CASE ev.httpMethod = "GET" ->
         IF ~IsNull(ev.queryStringParameters) THEN "getProductsByCategory"
         ELSE IF ~IsNull(ev.pathParameters) THEN "deleteProduct"
         ELSE "getAllProducts"
    [] ev.httpMethod = "POST" -> "createProduct"
    [] ev.httpMethod = "DELETE" -> "deleteProduct"
    [] ev.httpMethod = "PUT" -> "updateProduct"
    [] OTHER -> "unsupported"
RouteQueryNeedsPath(ev) ==
  CASE ev.httpMethod = "GET" ->
         IF ~IsNull(ev.queryStringParameters) /\ ~IsNull(ev.pathParameters)
           THEN "getProductsByCategory"
         ELSE IF ~IsNull(ev.pathParameters) THEN "getProduct"
         ELSE "getAllProducts"
    [] ev.httpMethod = "POST" -> "createProduct"
    [] ev.httpMethod = "DELETE" -> "deleteProduct"
    [] ev.httpMethod = "PUT" -> "updateProduct"
    [] OTHER -> "unsupported"
RoutePathFirst(ev) ==
  CASE ev.httpMethod = "GET" ->
         IF ~IsNull(ev.pathParameters) THEN "getProduct"
         ELSE IF ~IsNull(ev.queryStringParameters) THEN "getProductsByCategory"
         ELSE "getAllProducts"
    [] ev.httpMethod = "POST" -> "createProduct"
    [] ev.httpMethod = "DELETE" -> "deleteProduct"
    [] ev.httpMethod = "PUT" -> "updateProduct"
    [] OTHER -> "unsupported"
Route(ev) ==
  CASE ev.httpMethod = "GET" ->
         IF ~IsNull(ev.queryStringParameters) THEN "getProductsByCategory"
         ELSE IF ~IsNull(ev.pathParameters) THEN "getProduct"
         ELSE "getAllProducts"
    [] ev.httpMethod = "POST" -> "createProduct"
    [] ev.httpMethod = "DELETE" -> "deleteProduct"
    [] ev.httpMethod = "PUT" -> "updateProduct"
    [] OTHER -> "unsupported"

\* The ids a client can put in the path: its own and the generated ones.
KnownIds == ClientIds \cup {GeneratedIds[i] : i \in 1..uuids}
Paths == {PathParams(i) : i \in KnownIds}
JsonBodies == {JSONstringify(m) : m \in FieldMaps}
EventsOf(method) ==
  CASE method = "GET" ->
         {HttpEvent("product", "GET", pp, q, NoBody) :
            pp \in Paths \cup {NullParams},
            q \in {QueryParams(c) : c \in SearchTerms} \cup {NullParams}}
    [] method = "POST" ->
         {HttpEvent("product", "POST", NullParams, NullParams, b) : b \in JsonBodies}
    [] method = "PUT" ->
         {HttpEvent("product", "PUT", pp, NullParams, b) : pp \in Paths, b \in JsonBodies}
    [] OTHER ->
         {HttpEvent("product", method, pp, NullParams, NoBody) : pp \in Paths}

\* JSON.parse(event.body) throws a SyntaxError on a body that is no JSON
\* text.
MalformedBody == <<"text", <<>>>>
ParsesAnything(t) == TRUE
Parses(t) == t[1] = "json"

\* How a routed operation ends: it returns a value, or it throws (every
\* operation logs what it caught and throws it again).  command is the
\* store command it had sent by then, "none" if it had sent none.
Completed(cmd, value) == [error |-> "none", command |-> cmd, value |-> value]
Threw(cmd, msg) == [error |-> msg, command |-> cmd, value |-> ErrorBody(msg)]
\* What a failing store call throws.
StoreError == "DependencyFailure"

\* The handler's return: statusCode 200 with the operation's result, or
\* statusCode 500 with e.message from the catch branch.
StatusCodeAlwaysSuccess(outcome) == 200
StatusCode(outcome) == IF outcome.error = "none" THEN 200 ELSE 500
Respond(ev, outcome) ==
  /\ served' = served + 1
  /\ lastEvent' = ev
  /\ response' = [statusCode |-> StatusCode(outcome), body |-> outcome.value]
  /\ repeats' = IF ev = lastEvent THEN 2 ELSE 1
  /\ issued' = outcome.command
  /\ thrown' = outcome.error
  /\ UNCHANGED <<ckVars, busVars, ordVars, now>>

\* getProduct(productId): "return (Item) ? unmarshall(Item) : {}"; nothing
\* in it throws on a missing Item.  ok: the store serves the call.
getProductThrowsIfMissing(table, productId, ok) ==
  LET found == GetItemCommand(table, productId)
  IN  IF ok /\ Exists(found) THEN Completed("GetItem", ObjectBody(unmarshall(found)))
      ELSE Threw("GetItem", IF ok THEN "NotFound" ELSE StoreError)
getProduct(table, productId, ok) ==
  LET found == GetItemCommand(table, productId)
  IN  IF ok
        THEN Completed("GetItem", ObjectBody(IF Exists(found) THEN unmarshall(found) ELSE <<>>))
        ELSE Threw("GetItem", StoreError)

\* GET /product/{id}: the handler calls getProduct(event.pathParameters.id).
GetProduct(ev, ok) ==
  /\ served < MaxRequests
  /\ Route(ev) = "getProduct"
  /\ Respond(ev, getProduct(productTable, ev.pathParameters.id, ok))
  /\ UNCHANGED <<basketTable, productTable, uuids>>

\* GET /product: getAllProducts.
GetAllProducts(ev, ok) ==
  /\ served < MaxRequests
  /\ Route(ev) = "getAllProducts"
  /\ IF ok
       THEN \E Items \in ScanCommand(productTable) :
              Respond(ev, Completed("Scan", ArrayBody([i \in DOMAIN Items |-> unmarshall(Items[i])])))
       ELSE Respond(ev, Threw("Scan", StoreError))
  /\ UNCHANGED <<basketTable, productTable, uuids>>

\* GET /product/{id}?category=...: getProductsByCategory; reading
\* event.pathParameters.id of a null pathParameters throws a TypeError
\* before the query is built.
GetProductsByCategory(ev, ok) ==
  /\ served < MaxRequests
  /\ Route(ev) = "getProductsByCategory"
  /\ IF IsNull(ev.pathParameters)
       THEN Respond(ev, Threw("none", "TypeError"))
       ELSE IF ok
         THEN \E Items \in QueryCommand(productTable, ev.pathParameters.id,
                                        ev.queryStringParameters.category) :
                Respond(ev, Completed("Query", ArrayBody([i \in DOMAIN Items |-> unmarshall(Items[i])])))
         ELSE Respond(ev, Threw("Query", StoreError))
  /\ UNCHANGED <<basketTable, productTable, uuids>>

\* POST /product: createProduct.  The body is parsed first, then the id is
\* generated, then the item is put.
CreateProduct(ev, ok) ==
  /\ served < MaxRequests
  /\ uuids < MaxCreates
  /\ Route(ev) = "createProduct"
  /\ IF ~Parses(ev.body)
       THEN /\ Respond(ev, Threw("none", "SyntaxError"))
            /\ UNCHANGED <<productTable, uuids>>
       ELSE /\ uuids' = uuids + 1
            /\ IF ok
                 THEN LET productRequest == WithId(JSONparse(ev.body), uuidv4)
                      IN  /\ productTable' = PutItemCommand(productTable, marshall(productRequest))
                          /\ Respond(ev, Completed("PutItem", MetadataBody))
                 ELSE /\ Respond(ev, Threw("PutItem", StoreError))
                      /\ UNCHANGED productTable
  /\ UNCHANGED basketTable

\* DELETE /product/{id}: deleteProduct.
DeleteProduct(ev, ok) ==
  /\ served < MaxRequests
  /\ Route(ev) = "deleteProduct"
  /\ IF ok /\ DeleteAccepted(productTable, ev.pathParameters.id)
       THEN /\ productTable' = DeleteItemCommand(productTable, ev.pathParameters.id)
            /\ Respond(ev, Completed("DeleteItem", MetadataBody))
       ELSE /\ Respond(ev, Threw("DeleteItem", IF ok THEN "ConditionalCheckFailedException"
                                                    ELSE StoreError))
            /\ UNCHANGED productTable
  /\ UNCHANGED <<basketTable, uuids>>

\* PUT /product/{id}: updateProduct.  A rejected UpdateItem throws.
UpdateProduct(ev, ok) ==
  /\ served < MaxRequests
  /\ Route(ev) = "updateProduct"
  /\ IF ~Parses(ev.body)
       THEN /\ Respond(ev, Threw("none", "SyntaxError"))
            /\ UNCHANGED productTable
       ELSE LET requestBody == JSONparse(ev.body)
                objKeys == DOMAIN requestBody
            IN  IF ok /\ UpdateValid(objKeys)
                  THEN /\ productTable' = UpdateItemCommand(productTable, ev.pathParameters.id,
                                                            marshall(requestBody))
                       /\ Respond(ev, Completed("UpdateItem", MetadataBody))
                  ELSE /\ Respond(ev, Threw("UpdateItem", IF ok THEN "ValidationException"
                                                               ELSE StoreError))
                       /\ UNCHANGED productTable
  /\ UNCHANGED <<basketTable, uuids>>

\* Any other method: "Unsupported route", answered by the catch branch.
UnsupportedRoute(ev) ==
  /\ served < MaxRequests
  /\ Route(ev) = "unsupported"
  /\ Respond(ev, Threw("none", "Unsupported route"))
  /\ UNCHANGED <<basketTable, productTable, uuids>>

\* The basket handler answering a request with success.
BasketRespond(ev, cmd, body) ==
  /\ served' = served + 1
  /\ lastEvent' = ev
  /\ response' = [statusCode |-> 200, body |-> body]
  /\ repeats' = IF ev = lastEvent THEN 2 ELSE 1
  /\ issued' = cmd
  /\ thrown' = "none"
  /\ UNCHANGED <<productTable, uuids>>

\* POST /basket through the basket handler.
PutBasketRequest(u, b) ==
  /\ served < MaxRequests
  /\ createBasket(b)
  /\ BasketRespond(HttpEvent("basket", "POST", NullParams, NullParams, JSONstringify(b)),
                   "PutItem", MetadataBody)

\* DELETE /basket/{userName} through the basket handler.
DeleteBasketRequest(u) ==
  /\ served < MaxRequests
  /\ deleteBasket(u)
  /\ BasketRespond(HttpEvent("basket", "DELETE", [userName |-> u], NullParams, NoBody),
                   "DeleteItem", MetadataBody)

\* GET /basket/{userName} through the basket handler.
GetBasketRequest(u) ==
  /\ served < MaxRequests
  /\ BasketRespond(HttpEvent("basket", "GET", [userName |-> u], NullParams, NoBody),
                   "GetItem", ObjectBody(getBasket(u)))
  /\ UNCHANGED <<basketTable, ckVars, busVars, ordVars, now>>

\* ---------------------------------------------------------- the system
\* The basket service with its clients and concurrent checkout invocations.
Next ==
  \/ \E u \in Users : \E b \in BasketBodies(u) : PutBasket(u, b)
  \/ \E u \in Users : RemoveBasket(u)
  \/ \E p \in Procs : \E r \in Requests : CheckoutReceive(p, r)
  \/ \E p \in Procs : \E ok \in BOOLEAN : CheckoutLoad(p, ok)
  \/ \E p \in Procs : \E ok \in BOOLEAN : CheckoutPublish(p, ok)
  \/ \E p \in Procs : \E ok \in BOOLEAN : CheckoutClear(p, ok)
  \/ \E p \in Procs : Timeout(p)

Spec == Init /\ [][Next]_vars

\* The ordering service fed by the order queue.
OrderNext ==
  \/ \E e \in CheckoutEvents : EventArrives(e)
  \/ \E m \in DOMAIN events : \E ok \in BOOLEAN : EventBridgeInvocation(m, ok)
  \/ \E b \in Batches : SqsInvocation(b)
  \/ \E ok \in BOOLEAN : ProcessRecord(ok)
  \/ \E acked \in BOOLEAN : SqsReturn(acked)
  \/ Tick

OrderSpec == Init /\ [][OrderNext]_vars

\* One checkout event and the two ways it can reach the ordering handler.
IngestNext ==
  \/ \E e \in CheckoutEvents : events = <<>> /\ EventArrives(e)
  \/ \E b \in Batches : SqsInvocation(b)
  \/ \E ok \in BOOLEAN : ProcessRecord(ok)
  \/ \E acked \in BOOLEAN : SqsReturn(acked)
  \/ \E m \in DOMAIN events : \E ok \in BOOLEAN : EventBridgeInvocation(m, ok)
  \/ Tick

IngestSpec == Init /\ [][IngestNext]_vars

\* The product service and the basket table behind their HTTP handlers.
CrudNext ==
  \/ \E ev \in EventsOf("GET") : GetProduct(ev, TRUE)
  \/ \E ev \in EventsOf("GET") : GetAllProducts(ev, TRUE)
  \/ \E ev \in EventsOf("GET") : GetProductsByCategory(ev, TRUE)
  \/ \E ev \in EventsOf("POST") : CreateProduct(ev, TRUE)
  \/ \E ev \in EventsOf("DELETE") : DeleteProduct(ev, TRUE)
  \/ \E ev \in EventsOf("PUT") : UpdateProduct(ev, TRUE)
  \/ \E ev \in EventsOf("PATCH") : UnsupportedRoute(ev)
  \/ \E b \in BasketBodies("bob") : PutBasketRequest("bob", b)
  \/ \E u \in Users : DeleteBasketRequest(u)

CrudSpec == Init /\ [][CrudNext]_vars

\* The basket table behind the basket handler: every user puts and deletes.
BasketNext ==
  \/ \E u \in Users : \E b \in BasketBodies(u) : PutBasketRequest(u, b)
  \/ \E u \in Users : DeleteBasketRequest(u)
  \/ \E u \in Users : GetBasketRequest(u)

BasketSpec == Init /\ [][BasketNext]_vars

\* The product handler alone, with every event a client can send, bodies
\* that are no JSON included, and a store that may fail any call.
HandlerEventsOf(method) ==
  EventsOf(method) \cup
    CASE method = "POST" ->
           {HttpEvent("product", "POST", NullParams, NullParams, MalformedBody)}
      [] method = "PUT" ->
           {HttpEvent("product", "PUT", pp, NullParams, MalformedBody) : pp \in Paths}
      [] OTHER -> {}
\* One invocation of the product handler.  The switch alone decides
\* which function runs, so deleteProduct is offered the GET events as well.
HandlerNext ==
  \/ \E ev \in HandlerEventsOf("GET") : \E ok \in BOOLEAN : GetProduct(ev, ok)
  \/ \E ev \in HandlerEventsOf("GET") : \E ok \in BOOLEAN : GetAllProducts(ev, ok)
  \/ \E ev \in HandlerEventsOf("GET") : \E ok \in BOOLEAN : GetProductsByCategory(ev, ok)
  \/ \E ev \in HandlerEventsOf("POST") : \E ok \in BOOLEAN : CreateProduct(ev, ok)
  \/ \E ev \in HandlerEventsOf("DELETE") \cup HandlerEventsOf("GET") :
       \E ok \in BOOLEAN : DeleteProduct(ev, ok)
  \/ \E ev \in HandlerEventsOf("PUT") : \E ok \in BOOLEAN : UpdateProduct(ev, ok)
  \/ \E ev \in HandlerEventsOf("PATCH") : UnsupportedRoute(ev)

HandlerSpec == Init /\ [][HandlerNext]_vars

\* A checkout of alice's basket on its way to an Order, next to a catalog
\* whose product p1 is repriced and deleted meanwhile.
CatalogWrites ==
  {ev \in EventsOf("PUT") : DOMAIN JSONparse(ev.body) = {"price"}} \cup EventsOf("DELETE")
SnapshotNext ==
  \/ \E b \in BasketBodies("alice") : started = 0 /\ PutBasket("alice", b)
  \/ events = <<>> /\ CheckoutReceive(1, [userName |-> "alice", firstName |-> "A"])
  \/ CheckoutLoad(1, TRUE)
  \/ \E ok \in BOOLEAN : CheckoutPublish(1, ok)
  \/ CheckoutClear(1, TRUE)
  \/ \E m \in DOMAIN events : \E ok \in BOOLEAN : EventBridgeInvocation(m, ok)
  \/ \E ev \in CatalogWrites : UpdateProduct(ev, TRUE)
  \/ \E ev \in CatalogWrites : DeleteProduct(ev, TRUE)

SnapshotSpec == Init /\ [][SnapshotNext]_vars

\* The whole pipeline for one checkout invocation at a time: basket,
\* checkout, bus, queue and ordering service; a client puts a basket only
\* when the user has none.  The queue delivers every
\* message it holds (at-least-once), the ordering handler runs to its end,
\* and a store call that is tried again and again eventually succeeds.
PipelineNext ==
  \/ \E u \in Users : \E b \in BasketBodies(u) :
       ~basketTable[u].exists /\ PutBasket(u, b)
  \/ \E r \in Requests : CheckoutReceive(1, r)
  \/ \E ok \in BOOLEAN : CheckoutLoad(1, ok)
  \/ \E ok \in BOOLEAN : CheckoutPublish(1, ok)
  \/ \E ok \in BOOLEAN : CheckoutClear(1, ok)
  \/ Timeout(1)
  \/ \E b \in Batches : SqsInvocation(b)
  \/ \E ok \in BOOLEAN : ProcessRecord(ok)
  \/ \E acked \in BOOLEAN : SqsReturn(acked)

PipelineSpec ==
  /\ Init
  /\ [][PipelineNext]_vars
  /\ WF_vars(\E b \in Batches : SqsInvocation(b))
  /\ WF_vars(\E ok \in BOOLEAN : ProcessRecord(ok))
  /\ WF_vars(\E acked \in BOOLEAN : SqsReturn(acked))
  /\ SF_vars(ProcessRecord(TRUE))

\* ================================================================ claims
\* A sum over the lines of an item list, by position.
RECURSIVE SumOfPrices(_, _)
SumOfPrices(its, n) == IF n = 0 THEN 0 ELSE its[n].price + SumOfPrices(its, n - 1)

Published(p) == \E i \in DOMAIN events : events[i] = payload[p]

\* C1: in every execution of checkout, also one ended by a timeout at any
\* suspension point, the basket delete is attempted only after the publish
\* of that checkout's event succeeded, so no basket is removed by a
\* checkout whose event is not on the bus.
C1_DeleteOnlyAfterPublish ==
  \A p \in Procs :
    calls[p].del > 0 => calls[p].publishOk = 1 /\ Published(p)

C1_Witness ==
  \E p \in Procs : calls[p].delOk = 1 /\ ~basketTable[req[p].userName].exists

\* C2: if the publish fails, checkout reports failure, attempts no basket
\* delete, and no step of that invocation writes the basket table.
C2_FailedPublishReported ==
  \A p \in Procs :
    calls[p].publish = 1 /\ calls[p].publishOk = 0
      => pc[p] = "done" /\ result[p] = "dependency-error" /\ calls[p].del = 0

C2_NoWriteWithoutPublish ==
  \A p \in Procs :
    (calls'[p] # calls[p] \/ pc'[p] # pc[p]) /\ calls'[p].publishOk = 0
      => basketTable' = basketTable

C2_BasketPreservedOnPublishFailure ==
  [](C2_FailedPublishReported) /\ [][C2_NoWriteWithoutPublish]_vars

C2_Witness ==
  \E p \in Procs :
    /\ calls[p].publish = 1 /\ calls[p].publishOk = 0
    /\ basketTable[req[p].userName] = basket[p]

\* C3: when the basket of the userName is absent, or has a null or an
\* empty item list, checkout fails with a business error, publishes
\* nothing, deletes nothing and leaves the basket table as it was.
Unusable(b) == ~b.exists \/ b.itemsNull \/ Len(b.items) = 0

C3_Refused ==
  \A p \in Procs :
    calls[p].getOk = 1 /\ Unusable(basket[p])
      => /\ pc[p] = "done"
         /\ result[p] = "business-error"
         /\ calls[p].publish = 0
         /\ calls[p].del = 0
         /\ ~Published(p)

C3_LoadWritesNothing ==
  \A p \in Procs :
    calls'[p].get # calls[p].get
      => basketTable' = basketTable /\ (Unusable(basket'[p]) => events' = events)

C4_ValidationFirst ==
  \A p \in Procs :
    pc[p] # "idle" /\ req[p].userName \in {Null, ""}
      => pc[p] = "done" /\ result[p] = "validation-error" /\ calls[p] = NoCalls

C4_Witness ==
  \E p \in Procs : pc[p] = "done" /\ req[p].userName = "" /\ result[p] = "validation-error"

\* C5: if the publish succeeded and the basket delete then fails, the
\* caller gets a success with a warning, the event stays on the bus and
\* the basket stays stored.
C5_Reported ==
  \A p \in Procs :
    calls[p].publishOk = 1 /\ calls[p].del = 1 /\ calls[p].delOk = 0
      => pc[p] = "done" /\ result[p] = "ok-warning" /\ Published(p)

C5_FailedDeleteStep ==
  \A p \in Procs :
    calls'[p].del = 1 /\ calls[p].del = 0 /\ calls'[p].delOk = 0
      => basketTable' = basketTable /\ events' = events /\ queue' = queue

C7_DeleteStep ==
  \A p \in Procs :
    calls'[p].delOk = 1 /\ calls[p].delOk = 0
      => getBasket(req[p].userName)' = EmptyObject /\ result'[p] = "ok"

C7_BasketAbsentAfterCheckout == [][C7_DeleteStep]_vars

C7_Witness ==
  \E p \in Procs :
    /\ calls[p].publishOk = 1 /\ calls[p].delOk = 1 /\ result[p] = "ok"
    /\ basket[p].exists
    /\ getBasket(req[p].userName) = EmptyObject

\* Number of successful createOrder calls for the events of a userName.
RECURSIVE IngestedFor(_, _)
IngestedFor(u, n) ==
  IF n = 0 THEN 0
  ELSE (IF events[n].userName = u THEN ingested[n] ELSE 0) + IngestedFor(u, n - 1)

\* C8: successful ingestions for one userName, of different events or of
\* one event delivered again, each leave an Order record of their own
\* under a distinct orderDate: getByUser returns as many records as there
\* were ingestions, none overwritten.
C8_OneOrderPerIngestion ==
  \A u \in Users : Cardinality(getByUser(u)) = IngestedFor(u, Len(events))

\* C9: when one record of a batch of several fails, the other records are
\* still processed and the handler's return names exactly the failed
\* records to the queue.
C9_PerRecordReport ==
  opc = "idle" /\ Len(batch) >= 2 /\ logged # {}
    => /\ \A m \in BatchIds \ logged : ingested[m] >= 1
       /\ report = logged

\* C10: every checkout event whose publish succeeded eventually has an
\* Order record for its userName, given at-least-once delivery and fair
\* redelivery; also when the basket delete after the publish failed.
C10_PublishedEventsBecomeOrders ==
  \A i \in 1..MaxCheckouts :
    (i \in DOMAIN events)
      ~> (i \in DOMAIN events /\ \E o \in orderTable : o.userName = events[i].userName)

\* C11: an Order record, once written, is never changed or removed by a
\* later operation: the set of Order records only grows.
C11_OrdersNeverChange == [][orderTable \subseteq orderTable']_vars

\* C12: the two entry modes are equivalent: an event ingested as a queue
\* record and the same event delivered directly by the bus leave an Order
\* with the event's userName, totalPrice, buyer fields and items, under the
\* orderDate assigned at ingestion.
C12_OrderOfLastIngest ==
  lastIngest.mode # "none" =>
    \E o \in orderTable :
      /\ o.orderDate = lastIngest.orderDate
      /\ o.userName = events[lastIngest.msg].userName
      /\ o.totalPrice = events[lastIngest.msg].totalPrice
      /\ o.firstName = events[lastIngest.msg].firstName
      /\ o.items = events[lastIngest.msg].items

C12_ModeCount ==
  (\E m \in DOMAIN ingested : ingested'[m] > ingested[m]) =>
    /\ lastIngest'.mode \in {"sqs", "eventBridge"}
    /\ Cardinality(orderTable') <= Cardinality(orderTable) + 1

\* C12 (as a whole): the record of the last ingestion is there whatever the
\* entry mode, and every ingestion is one of the two modes adding at most
\* one record.
C12_EntryModesEquivalent ==
  [](C12_OrderOfLastIngest) /\ [][C12_ModeCount]_vars

C12_Witness ==
  /\ lastIngest.mode = "eventBridge"
  /\ \E m \in DOMAIN events :
       /\ ingested[m] = 2 /\ Cardinality(orderTable) = 2
       /\ \A o \in orderTable : o.items = events[m].items

\* ------------------------------------------------- product service claims
\* This step is the handler answering a request of the given service and
\* method.
Answers(svc, method) ==
  /\ served' = served + 1
  /\ lastEvent'.service = svc
  /\ lastEvent'.httpMethod = method
\* The record a stored item stands for.
Record(table, id) == unmarshall(table[id])
\* The two field maps agree on every field other than id.
SameBesidesId(a, b) ==
  /\ DOMAIN a \ {"id"} = DOMAIN b \ {"id"}
  /\ \A f \in DOMAIN a \ {"id"} : a[f] = b[f]

\* C13: every create stores the new product under a freshly generated id:
\* the id was never handed out before and held no record, an id supplied in
\* the input is discarded (no record appears or changes under any other
\* id), the stored record's id is the generated one, and every other input
\* field is stored with its value unchanged.
C13_CreateStoresUnderFreshId ==
  [][Answers("product", "POST") =>
       LET fields == JSONparse(lastEvent'.body)
           id == GeneratedIds[uuids']
       IN  /\ response'.statusCode = 200
           /\ uuids' = uuids + 1
           /\ \A j \in 1..uuids : GeneratedIds[j] # id
           /\ id \notin ClientIds
           /\ ~Exists(productTable[id])
           /\ Exists(productTable'[id])
           /\ Record(productTable', id).id = JsString(id)
           /\ SameBesidesId(Record(productTable', id), fields)
           /\ \A k \in ProductIds \ {id} : productTable'[k] = productTable[k]]_vars
C13_Witness ==
  /\ lastEvent.httpMethod = "POST"
  /\ "id" \in DOMAIN JSONparse(lastEvent.body)
  /\ JSONparse(lastEvent.body).id = JsString("p1")
  /\ "price" \in DOMAIN JSONparse(lastEvent.body)
  /\ Exists(productTable["g1"])
  /\ Record(productTable, "g1").id = JsString("g1")
  /\ Record(productTable, "g1").price = JSONparse(lastEvent.body).price
  /\ ~Exists(productTable["p1"])


\* Every stored record carries the id it is stored under.
C14_IdIsKey ==
  \A k \in ProductIds : Exists(productTable[k]) => Record(productTable, k).id = JsString(k)
\* An update touches no key other than the path id, and the record under
\* the path id keeps that id.
C14_UpdateKeepsId ==
  Answers("product", "PUT") =>
    LET id == lastEvent'.pathParameters.id
    IN  /\ \A k \in ProductIds \ {id} : productTable'[k] = productTable[k]
        /\ Exists(productTable'[id]) => Record(productTable', id).id = JsString(id)
\* C14: for every update request update(id, fields), including one whose
\* body holds an id different from the path id, the id of the stored record
\* is unchanged after the call and no record is created or modified under
\* the id supplied in the body.
C14_IdImmutable == [](C14_IdIsKey) /\ [][C14_UpdateKeepsId]_vars
C14_Witness ==
  /\ lastEvent.httpMethod = "PUT"
  /\ lastEvent.pathParameters.id = "g1"
  /\ "id" \in DOMAIN JSONparse(lastEvent.body)
  /\ JSONparse(lastEvent.body).id = JsString("p1")
  /\ Exists(productTable["g1"])
  /\ Exists(productTable["p1"])
  /\ Record(productTable, "g1").id = JsString("g1")

\* The record under id after the step is the record before it with exactly
\* the supplied fields set to the supplied values.
Merged(id, fields) ==
  LET old == Record(productTable, id)
      new == Record(productTable', id)
  IN  /\ Exists(productTable'[id])
      /\ DOMAIN new = DOMAIN old \cup DOMAIN fields
      /\ \A f \in DOMAIN fields : new[f] = fields[f]
      /\ \A f \in DOMAIN old \ DOMAIN fields : new[f] = old[f]
C16_UpsertCreatesRecord ==
  [][(Answers("product", "PUT") /\ ~Exists(productTable[lastEvent'.pathParameters.id]))
       => LET id == lastEvent'.pathParameters.id
              fields == JSONparse(lastEvent'.body)
              new == Record(productTable', id)
          IN  /\ response'.statusCode = 200
              /\ Exists(productTable'[id])
              /\ DOMAIN new = DOMAIN fields \cup {"id"}
              /\ new.id = JsString(id)
              /\ \A f \in DOMAIN fields \ {"id"} : new[f] = fields[f]]_vars

\* A delete of a product: it succeeds, the key is absent afterwards, no
\* other key changes; on an absent key, and so on the second of two deletes
\* in a row, the table is left as it was.
C17_ProductDelete ==
  Answers("product", "DELETE") =>
    LET id == lastEvent'.pathParameters.id
    IN  /\ response'.statusCode = 200
        /\ ~Exists(productTable'[id])
        /\ \A k \in ProductIds \ {id} : productTable'[k] = productTable[k]
        /\ ~Exists(productTable[id]) => productTable' = productTable
        /\ repeats' = 2 => productTable' = productTable
\* The same for a delete of a basket.
C17_BasketDelete ==
  Answers("basket", "DELETE") =>
    LET u == lastEvent'.pathParameters.userName
    IN  /\ response'.statusCode = 200
        /\ ~basketTable'[u].exists
        /\ \A v \in Users \ {u} : basketTable'[v] = basketTable[v]
        /\ ~basketTable[u].exists => basketTable' = basketTable
        /\ repeats' = 2 => basketTable' = basketTable
\* C17: delete is idempotent for products and baskets: deleting the same
\* key twice in a row succeeds both times, the second call raises no error
\* and leaves the store as the first left it; deleting a key that never
\* existed also succeeds and changes nothing.
C17_DeleteIdempotent == [][C17_ProductDelete /\ C17_BasketDelete]_vars
C17_Witness ==
  /\ lastEvent.service = "product"
  /\ lastEvent.httpMethod = "DELETE"
  /\ lastEvent.pathParameters.id = "g1"
  /\ uuids = 1
  /\ served = 3
  /\ repeats = 2
  /\ response.statusCode = 200
  /\ ~Exists(productTable["g1"])

\* This step answers GET /product/{id} without a query string.
AnswersGet ==
  /\ Answers("product", "GET")
  /\ IsNull(lastEvent'.queryStringParameters)
  /\ ~IsNull(lastEvent'.pathParameters)
\* C18: get(id) for an id with no stored product is not an error: the
\* handler answers with success and the empty object; for a stored id it
\* answers with the stored record, the object whose marshalled form is the
\* stored item.  The table is left as it was.
C18_GetAbsentIsEmptyObject ==
  [][AnswersGet =>
       LET id == lastEvent'.pathParameters.id
           body == response'.body
       IN  /\ response'.statusCode = 200
           /\ body.type = "object"
           /\ IF Exists(productTable[id])
                THEN marshall(body.object) = productTable[id]
                ELSE DOMAIN body.object = {}
           /\ productTable' = productTable]_vars
C18_Witness ==
  /\ lastEvent.service = "product"
  /\ lastEvent.httpMethod = "GET"
  /\ IsNull(lastEvent.queryStringParameters)
  /\ ~IsNull(lastEvent.pathParameters)
  /\ lastEvent.pathParameters.id = "p1"
  /\ ~Exists(productTable["p1"])
  /\ Exists(productTable["g1"])
  /\ response.statusCode = 200
  /\ response.body.type = "object"
  /\ DOMAIN response.body.object = {}

\* C19: round trip of create then get: after create(fields) has succeeded
\* the stored record has a non-empty generated id, and the get of that id
\* which follows answers exactly the input fields plus id: no field
\* added, none dropped, none altered.
C19_CreateThenGet ==
  [][(/\ lastEvent.service = "product"
      /\ lastEvent.httpMethod = "POST"
      /\ response.statusCode = 200
      /\ AnswersGet
      /\ lastEvent'.pathParameters.id = GeneratedIds[uuids])
       => LET fields == JSONparse(lastEvent.body)
              id == GeneratedIds[uuids]
              got == response'.body.object
          IN  /\ id # ""
              /\ Exists(productTable[id])
              /\ productTable[id].id = [S |-> id]
              /\ response'.statusCode = 200
              /\ response'.body.type = "object"
              /\ DOMAIN got = DOMAIN fields \cup {"id"}
              /\ got.id = JsString(id)
              /\ \A f \in DOMAIN fields \ {"id"} : got[f] = fields[f]]_vars
C19_Witness ==
  /\ served = 2
  /\ uuids = 1
  /\ lastEvent.service = "product"
  /\ lastEvent.httpMethod = "GET"
  /\ IsNull(lastEvent.queryStringParameters)
  /\ ~IsNull(lastEvent.pathParameters)
  /\ lastEvent.pathParameters.id = "g1"
  /\ response.statusCode = 200
  /\ DOMAIN response.body.object = {"id", "price", "category"}
  /\ response.body.object.id = JsString("g1")
  /\ response.body.object.price = JsNumber(42)
  /\ response.body.object.category = JsString("ab")

\* The string t occurs in the string c: c is some characters, then t, then
\* some characters.
Occurs(t, c) ==
  \E i \in 0..Len(Chars(c)) : \E j \in i..Len(Chars(c)) :
    SubSeq(Chars(c), i + 1, j) = Chars(t)
\* C20: listByCategoryContains(id, s) answers exactly the stored products
\* whose id is the given id and whose category contains s as a substring:
\* the one-element sequence holding the product with that id when its
\* category contains s, the empty sequence otherwise, and never a product
\* with another id.
C20_QueryByIdAndCategory ==
  [][(/\ Answers("product", "GET")
      /\ ~IsNull(lastEvent'.queryStringParameters)
      /\ ~IsNull(lastEvent'.pathParameters))
       => LET id == lastEvent'.pathParameters.id
              s == lastEvent'.queryStringParameters.category
              stored == productTable[id]
              answer == response'.body.array
              matches == /\ Exists(stored)
                         /\ "category" \in DOMAIN stored
                         /\ Occurs(s, stored.category.S)
          IN  /\ response'.statusCode = 200
              /\ response'.body.type = "array"
              /\ \A i \in DOMAIN answer : answer[i].id = JsString(id)
              /\ IF matches
                   THEN Len(answer) = 1 /\ marshall(answer[1]) = stored
                   ELSE Len(answer) = 0
              /\ productTable' = productTable]_vars
C20_Witness ==
  /\ lastEvent.service = "product"
  /\ lastEvent.httpMethod = "GET"
  /\ ~IsNull(lastEvent.pathParameters)
  /\ ~IsNull(lastEvent.queryStringParameters)
  /\ lastEvent.pathParameters.id = "g1"
  /\ lastEvent.queryStringParameters.category = "b"
  /\ response.statusCode = 200
  /\ Len(response.body.array) = 1
  /\ response.body.array[1].id = JsString("g1")
  /\ response.body.array[1].category = JsString("ab")
  /\ Exists(productTable["p1"])
  /\ "category" \in DOMAIN productTable["p1"]
  /\ productTable["p1"].category = [S |-> "b"]

\* ------------------------------------------------- product handler claims
\* C21: a create or update request whose body is not parsable JSON fails
\* before any store operation is issued: the caller gets a failure and the
\* product store is unchanged.
C21_MalformedBodyFailsBeforeStore ==
  [][((Answers("product", "POST") \/ Answers("product", "PUT"))
        /\ lastEvent'.body = MalformedBody)
       => /\ response'.statusCode = 500
          /\ thrown' = "SyntaxError"
          /\ issued' = "none"
          /\ productTable' = productTable]_vars
C21_Witness ==
  /\ lastEvent.service = "product"
  /\ lastEvent.httpMethod = "PUT"
  /\ lastEvent.pathParameters.id = "p1"
  /\ lastEvent.body = MalformedBody
  /\ response.statusCode = 500
  /\ issued = "none"
  /\ Exists(productTable["p1"])

\* This step is the product handler answering an event.
ProductAnswers ==
  /\ served' = served + 1
  /\ lastEvent'.service = "product"
\* C22: the product handler never throws and never hides a failure: for
\* every event it returns statusCode 200 exactly when the routed operation
\* completed without error, and otherwise statusCode 500 carrying the
\* error's message; a failure of the store in any operation is never
\* reported as success.
C22_StatusTellsOutcome ==
  [][ProductAnswers =>
       /\ response'.statusCode \in {200, 500}
       /\ response'.statusCode = 200 <=> thrown' = "none"
       /\ thrown' = "none" => response'.body.type # "error"
       /\ thrown' # "none" =>
            /\ response'.body.type = "error"
            /\ response'.body.errorMsg = thrown']_vars
C22_Witness ==
  /\ lastEvent.service = "product"
  /\ lastEvent.httpMethod = "PUT"
  /\ DOMAIN JSONparse(lastEvent.body) = {"price"}
  /\ issued = "UpdateItem"
  /\ thrown = StoreError
  /\ response.statusCode = 500
  /\ response.body.errorMsg = StoreError

\* ------------------------------------------------------ basket store claims
\* Every stored basket is the basket of the userName it is stored under.
C23_OneBasketPerUser ==
  \A u \in Users : basketTable[u].exists => basketTable[u].userName = u
\* After a put the basket stored for the request's userName is the request,
\* its items exactly, and no other user's basket has changed.
C23_PutReplaces ==
  Answers("basket", "POST") =>
    LET b == JSONparse(lastEvent'.body)
    IN  /\ basketTable'[b.userName].exists
        /\ basketTable'[b.userName].itemsNull = b.itemsNull
        /\ basketTable'[b.userName].items = b.items
        /\ \A v \in Users \ {b.userName} : basketTable'[v] = basketTable[v]
\* C23: the basket store holds at most one basket per userName in every
\* reachable state, and put(basket) is a full replace: after put, the
\* stored items for that userName are exactly the items of the request,
\* with nothing kept or appended from the previous basket.
C23_PutIsFullReplace == [](C23_OneBasketPerUser) /\ [][C23_PutReplaces]_vars
C23_Witness ==
  /\ served = 3
  /\ lastEvent.service = "basket"
  /\ lastEvent.httpMethod = "POST"
  /\ repeats = 1
  /\ JSONparse(lastEvent.body).userName = "alice"
  /\ JSONparse(lastEvent.body).items = <<Line(1)>>
  /\ basketTable["alice"].items = <<Line(1)>>
  /\ basketTable["bob"].exists

\* ---------------------------------------------------------- snapshot claims
\* Checkout builds its payload from the basket as stored when it loads it.
C24_PayloadCopiesBasket ==
  \A p \in Procs :
    (pc[p] = "validated" /\ pc'[p] = "built") =>
      /\ payload'[p].items = basketTable[req[p].userName].items
      /\ \A i \in DOMAIN payload'[p].items :
           payload'[p].items[i].price = basketTable[req[p].userName].items[i].price
\* A published event carries that payload, and published events never change.
C24_EventCopiesPayload ==
  /\ Len(events') >= Len(events)
  /\ \A m \in DOMAIN events : events'[m] = events[m]
  /\ Len(events') > Len(events) =>
       \E p \in Procs : pc[p] = "built" /\ events'[Len(events')] = payload[p]
\* Every Order carries the items of a published event.
C24_OrderCopiesEvent ==
  \A o \in orderTable :
    \E m \in DOMAIN events :
      o.userName = events[m].userName /\ o.items = events[m].items
\* A write to the catalog changes no basket, no published event, no Order.
C24_CatalogWriteFrame ==
  (ProductAnswers /\ lastEvent'.httpMethod \in {"PUT", "DELETE", "POST"}) =>
    /\ basketTable' = basketTable
    /\ basket' = basket
    /\ payload' = payload
    /\ events' = events
    /\ orderTable' = orderTable
\* C24: order line items are a by-value snapshot taken at checkout: the
\* items and prices of a published checkout event and of the Order built
\* from it equal the basket's items at checkout time, and a later update or
\* delete of a product in the catalog changes no basket item, no published
\* event and no Order record.
C24_ItemsAreSnapshot ==
  /\ [](C24_OrderCopiesEvent)
  /\ [][C24_PayloadCopiesBasket /\ C24_EventCopiesPayload /\ C24_CatalogWriteFrame]_vars
C24_Witness ==
  /\ \E o \in orderTable : o.items = <<Line(1), Line(2)>> /\ o.totalPrice = 30
  /\ Len(events) = 1
  /\ events[1].items = <<Line(1), Line(2)>>
  /\ ~basketTable["alice"].exists
  /\ lastEvent.service = "product"
  /\ lastEvent.httpMethod = "DELETE"
  /\ served = 2
  /\ repeats = 1
  /\ ~Exists(productTable["p1"])

\* The store command of the operation an event must be routed to; a body
\* that does not parse, or a query without a path, ends the operation
\* before the command is sent.
ExpectedCommand(ev) ==
  CASE ev.httpMethod = "GET" ->
         IF ~IsNull(ev.queryStringParameters)
           THEN IF IsNull(ev.pathParameters) THEN "none" ELSE "Query"
         ELSE IF ~IsNull(ev.pathParameters) THEN "GetItem"
         ELSE "Scan"
    [] ev.httpMethod = "POST" -> IF ev.body = MalformedBody THEN "none" ELSE "PutItem"
    [] ev.httpMethod = "PUT" -> IF ev.body = MalformedBody THEN "none" ELSE "UpdateItem"
    [] ev.httpMethod = "DELETE" -> "DeleteItem"
    [] OTHER -> "none"
\* C25: the product handler routes a GET by fixed precedence: with
\* queryStringParameters non-null it runs the category query, otherwise
\* with pathParameters non-null the point lookup by id, otherwise the full
\* listing; POST, PUT and DELETE run create, update and delete, and every
\* other method runs no store operation and yields a 500 'Unsupported
\* route' response.
C25_RoutingPrecedence ==
  [][ProductAnswers =>
       LET ev == lastEvent'
       IN  /\ issued' = ExpectedCommand(ev)
           /\ (ev.httpMethod = "GET" /\ thrown' = "none") =>
                response'.body.type =
                  IF ~IsNull(ev.queryStringParameters) \/ IsNull(ev.pathParameters)
                    THEN "array" ELSE "object"
           /\ ev.httpMethod \notin {"GET", "POST", "PUT", "DELETE"} =>
                /\ response'.statusCode = 500
                /\ response'.body.errorMsg = "Unsupported route"
                /\ productTable' = productTable]_vars
C25_Witness ==
  /\ lastEvent.service = "product"
  /\ lastEvent.httpMethod = "GET"
  /\ ~IsNull(lastEvent.queryStringParameters)
  /\ ~IsNull(lastEvent.pathParameters)
  /\ lastEvent.pathParameters.id = "p1"
  /\ Exists(productTable["p1"])
  /\ issued = "Query"
  /\ response.statusCode = 200
  /\ response.body.type = "array"

\* ---------------------------------------------------- concurrency claims
\* A step in which checkout worker p's deleteBasket removes a stored basket.
ClearRemoves(p) ==
  /\ pc[p] = "published"
  /\ pc'[p] = "done"
  /\ basketTable' # basketTable
\* C26: when a basket put interleaves with a checkout of the same userName
\* between the checkout's load and its delete, the contents the checkout's
\* delete removes are the contents published in its event: nothing is
\* deleted without having been published.
C26_DeletedContentsWerePublished ==
  [][\A p \in Procs :
       ClearRemoves(p) =>
         getBasket(req[p].userName).items = payload[p].items]_vars
\* C27: two checkouts of one userName running concurrently on one stored
\* basket publish at most one event for it: while a worker that has
\* published has not yet cleared the basket it loaded, no other worker
\* publishes that same loaded basket.
C27_OneEventPerBasket ==
  [][\A p \in Procs : \A q \in Procs \ {p} :
       ( /\ pc[p] = "built"
         /\ pc'[p] = "published"
         /\ pc[q] = "published"
         /\ req[q].userName = req[p].userName
         /\ basket[q] = basket[p]
         /\ getBasket(req[p].userName) = basket[p] )
       => events' = events]_vars

\* A GET carrying query-string parameters and no path parameters.
QueryWithoutPath(ev) ==
  /\ ev.service = "product"
  /\ ev.httpMethod = "GET"
  /\ ~IsNull(ev.queryStringParameters)
  /\ IsNull(ev.pathParameters)
\* C28: a GET with query-string parameters but no path parameters is routed
\* to the category query, which fails before any store operation; the
\* caller gets a 500 failure response and the request is never served as
\* the full product listing.
C28_QueryWithoutPathFails ==
  [][(ProductAnswers /\ QueryWithoutPath(lastEvent')) =>
       /\ response'.statusCode = 500
       /\ response'.body.type = "error"
       /\ response'.body.type # "array"
       /\ thrown' = "TypeError"
       /\ issued' = "none"
       /\ productTable' = productTable]_vars
C28_Witness ==
  /\ QueryWithoutPath(lastEvent)
  /\ response.statusCode = 500
  /\ response.body.errorMsg = "TypeError"
  /\ issued = "none"
  /\ \E id \in ProductIds : Exists(productTable[id])

\* C29: the product reads (point lookup, full listing, category query)
\* leave the product store unchanged, whether they succeed, return an
\* empty result or fail.
C29_ReadsLeaveStoreUnchanged ==
  [][(ProductAnswers /\ lastEvent'.httpMethod = "GET") =>
       /\ productTable' = productTable
       /\ issued' \in {"GetItem", "Scan", "Query", "none"}]_vars
C29_Witness ==
  /\ lastEvent.service = "product"
  /\ lastEvent.httpMethod = "GET"
  /\ issued = "GetItem"
  /\ response.statusCode = 200
  /\ response.body.type = "object"
  /\ response.body.object # <<>>
  /\ Exists(productTable[lastEvent.pathParameters.id])

\* The records of the product store other than id are the same before and
\* after the step.
OthersUntouched(id) ==
  \A k \in ProductIds \ {id} : productTable'[k] = productTable[k]
\* C30: each product write touches one key only: create adds exactly one
\* record and changes no existing record; update and delete change only
\* the record with the id of the request.
C30_WritesTouchOneKey ==
  [][ProductAnswers =>
       LET ev == lastEvent'
       IN  /\ ev.httpMethod = "POST" =>
                \/ productTable' = productTable /\ thrown' # "none"
                \/ /\ thrown' = "none"
                   /\ \E k \in ProductIds :
                        /\ ~Exists(productTable[k])
                        /\ Exists(productTable'[k])
                        /\ OthersUntouched(k)
           /\ ev.httpMethod \in {"PUT", "DELETE"} =>
                OthersUntouched(ev.pathParameters.id)]_vars
C30_Witness ==
  /\ lastEvent.service = "product"
  /\ lastEvent.httpMethod = "POST"
  /\ issued = "PutItem"
  /\ response.statusCode = 200
  /\ Cardinality({k \in ProductIds : Exists(productTable[k])}) = 2
====
